---------------------------- MODULE Spec2Model ----------------------------
(***************************************************************************)
(* gocachelogstat (src/main.go): one pass over the lines of the go build   *)
(* cache's log.txt that fills a registry of entries, four byte totals and  *)
(* two sequences of reuse-latency samples, followed by a sort and a        *)
(* percentile report.                                                      *)
(*                                                                         *)
(* A line is modelled by the result of strings.Fields on it: a sequence of *)
(* fields, each field a non-empty sequence of one-character strings.  The  *)
(* variable log is the sequence of lines the loop has consumed so far.     *)
(* Pointers to entries are addresses into heap; Nil is the nil pointer.    *)
(***************************************************************************)
EXTENDS Integers, Sequences, FiniteSets

VARIABLES
    log,            \* lines of bytes.Split(data, "\n") consumed so far, as fields
    pc,             \* "scan" | "fatal" | "panic" | "done"
    heap,           \* the entries allocated by new(entry), by address 1..Len(heap)
    cache,          \* map[string]*entry: key |-> address
    totalA, totalReusedA, totalD, totalReusedD,
    reuseA, reuseD,
    firstTime, lastTime,
    out,            \* what the report printed so far
    ext             \* the variables of the delta-tracking variant
                    \* (src/unnamed/part_000) run on the same log, as a record

vars == <<log, pc, heap, cache, totalA, totalReusedA, totalD, totalReusedD,
          reuseA, reuseD, firstTime, lastTime, out, ext>>

(***************************************************************************)
(* Bounds                                                                  *)
(***************************************************************************)
MaxLines == 4

\* The get/miss lines of a log that is one put followed by get/miss lines.
MaxSamples == 7

\* The lines of a log that draws its lines from AllLines.
MaxFieldLines == 3

(***************************************************************************)
(* Program constants                                                       *)
(***************************************************************************)
ActionSize == 154
SecondsPerDay == 86400

Nil == 0

PUT  == <<"p", "u", "t">>
GET  == <<"g", "e", "t">>
MISS == <<"m", "i", "s", "s">>

ASuffix == <<"-", "a">>
DSuffix == <<"-", "d">>

(***************************************************************************)
(* The lines the log is drawn from                                         *)
(***************************************************************************)
Times == {<<"0">>, <<"1">>}
Keys  == {<<"A">>, <<"B">>}
STAT  == <<"s", "t", "a", "t">>

\* The size logged by a put depends on its time, so that two puts at
\* different times log different sizes.
SizeAt(t) == IF t = <<"0">> THEN <<"7">> ELSE <<"-", "3">>

\* The action and data key of a put: two actions that share a data key, one
\* action put with two data keys, one identifier in both roles.
KeyPairs == { <<<<"A">>, <<"A">>>>, <<<<"A">>, <<"B">>>>, <<<<"B">>, <<"A">>>> }

PutLines   == {<<t, PUT, p[1], p[2], SizeAt(t)>> : t \in Times, p \in KeyPairs}
GetLines   == {<<t, GET, <<"A">> >> : t \in Times}
                \cup { <<<<"1">>, MISS, <<"B">> >> }
OtherLines == { <<<<"1">>, STAT, <<"A">> >> }
BadLines ==
    { <<<<"1">>, GET>>,
      <<<<"1">>, PUT, <<"A">>, <<"B">> >>,
      <<<<"x">>, GET, <<"A">> >>,
      <<<<"1">>, PUT, <<"A">>, <<"B">>, <<"7", "k">> >>,
      <<<<"0">>, PUT, <<"A">>, <<"B">>, <<"-">> >> }

Lines == {<<>>} \cup PutLines \cup GetLines \cup OtherLines \cup BadLines

\* Lines with more fields than their kind needs: every get, miss and
\* unknown-kind line followed by one or two more fields, a put line followed
\* by a sixth field, and a timestamp written with a plus sign.
Extras == { << <<"x">> >>, << <<"B">>, <<"7">> >> }

TrailingLines == {f \o x : f \in GetLines \cup OtherLines, x \in Extras}

MoreLines ==
    TrailingLines
    \cup { <<<<"0">>, PUT, <<"A">>, <<"A">>, <<"7">>, <<"x">> >>,
           <<<<"+", "1">>, GET, <<"A">> >> }

AllLines == Lines \cup MoreLines

(***************************************************************************)
(* strconv.ParseInt(s, 10, 64): an optional sign, then one or more decimal *)
(* digits.  The fields of the model are at most a few characters long, so  *)
(* the int64 range error cannot arise.                                     *)
(***************************************************************************)
Digits == {"0", "1", "2", "3", "4", "5", "6", "7", "8", "9"}

DigitVal(c) ==
    CASE c = "0" -> 0 [] c = "1" -> 1 [] c = "2" -> 2 [] c = "3" -> 3
      [] c = "4" -> 4 [] c = "5" -> 5 [] c = "6" -> 6 [] c = "7" -> 7
      [] c = "8" -> 8 [] c = "9" -> 9

RECURSIVE DecimalVal(_)
DecimalVal(s) ==
    IF s = <<>> THEN 0
    ELSE 10 * DecimalVal(SubSeq(s, 1, Len(s) - 1)) + DigitVal(s[Len(s)])

Atoi(s) ==
    LET signed == s # <<>> /\ s[1] \in {"+", "-"}
        neg    == s # <<>> /\ s[1] = "-"
        body   == IF signed THEN Tail(s) ELSE s
    IN  IF body = <<>> \/ \E i \in 1..Len(body) : body[i] \notin Digits
        THEN [ok |-> FALSE, val |-> 0]
        ELSE [ok |-> TRUE,
              val |-> IF neg THEN 0 - DecimalVal(body) ELSE DecimalVal(body)]

\* The fields that occur in the lines, and strconv.ParseInt tabulated on them.
Fields == UNION {{f[i] : i \in 1..Len(f)} : f \in AllLines}

Parsed == [s \in Fields |-> Atoi(s)]

ParseInt(s) == Parsed[s]

(***************************************************************************)
(* The registry                                                            *)
(***************************************************************************)
Lookup(c, k) == IF k \in DOMAIN c THEN c[k] ELSE Nil

Store(c, k, p) == [x \in DOMAIN c \cup {k} |-> IF x = k THEN p ELSE c[x]]

NewEntry == [created |-> 0, size |-> 0, reused |-> FALSE, data |-> Nil]

ActionKey(f) == f[3] \o ASuffix
\* Mutant of DataKey: the data key carries the action suffix.
DataKeySameRole(f) == f[4] \o ASuffix

DataKey(f)   == f[4] \o DSuffix

(***************************************************************************)
(* The loop body, on the record st of the parser's variables               *)
(***************************************************************************)
Cur == [pc |-> pc, heap |-> heap, cache |-> cache,
        totalA |-> totalA, totalReusedA |-> totalReusedA,
        totalD |-> totalD, totalReusedD |-> totalReusedD,
        reuseA |-> reuseA, reuseD |-> reuseD,
        firstTime |-> firstTime, lastTime |-> lastTime]

\* Mutant of Fatalf: the message is logged and the loop goes on.
FatalfReturns == "scan"

Fatalf == "fatal"

\* Mutant of InvalidLine: a get, miss or unknown-kind line must have exactly
\* three fields.
InvalidLineStrict(f) ==
    Len(f) < 3 \/ (f[2] = PUT /\ Len(f) # 5) \/ (f[2] # PUT /\ Len(f) # 3)

InvalidLine(f) == Len(f) < 3 \/ (f[2] = PUT /\ Len(f) # 5)

UpdateTimes(st, t) ==
    [st EXCEPT !.firstTime = IF st.firstTime = 0 THEN t ELSE @,
               !.lastTime = t]

\* Mutant of PutData: the size of a put is counted even when the data entry
\* exists already.
PutDataCountsAgain(st, f, t, size) ==
    IF Lookup(st.cache, DataKey(f)) = Nil
    THEN [st EXCEPT
            !.heap = Append(@, [NewEntry EXCEPT !.created = t, !.size = size]),
            !.cache = Store(@, DataKey(f), Len(st.heap) + 1),
            !.totalD = @ + size]
    ELSE [st EXCEPT !.totalD = @ + size]

\* Mutant of PutData: a put of an existing data key restamps the entry.
PutDataRestamps(st, f, t, size) ==
    IF Lookup(st.cache, DataKey(f)) = Nil
    THEN [st EXCEPT
            !.heap = Append(@, [NewEntry EXCEPT !.created = t, !.size = size]),
            !.cache = Store(@, DataKey(f), Len(st.heap) + 1),
            !.totalD = @ + size]
    ELSE [st EXCEPT !.heap[Lookup(st.cache, DataKey(f))].created = t]

PutData(st, f, t, size) ==
    IF Lookup(st.cache, DataKey(f)) = Nil
    THEN [st EXCEPT
            !.heap = Append(@, [NewEntry EXCEPT !.created = t, !.size = size]),
            !.cache = Store(@, DataKey(f), Len(st.heap) + 1),
            !.totalD = @ + size]
    ELSE st

\* Mutants of PutAction: every put overwrites the action entry; the new entry
\* is stored without its data reference.
PutActionOverwrites(st, f, t, e1) ==
    [st EXCEPT
        !.heap = Append(@, [NewEntry EXCEPT !.created = t,
                                            !.size = ActionSize,
                                            !.data = e1]),
        !.cache = Store(@, ActionKey(f), Len(st.heap) + 1),
        !.totalA = @ + ActionSize]

PutActionNoData(st, f, t, e1) ==
    IF Lookup(st.cache, ActionKey(f)) = Nil
    THEN [st EXCEPT
            !.heap = Append(@, [NewEntry EXCEPT !.created = t,
                                                !.size = ActionSize]),
            !.cache = Store(@, ActionKey(f), Len(st.heap) + 1),
            !.totalA = @ + ActionSize]
    ELSE st

\* Mutant of PutAction: a later put of an existing action key re-points the
\* entry at the data entry it names.
PutActionRepoints(st, f, t, e1) ==
    IF Lookup(st.cache, ActionKey(f)) = Nil
    THEN [st EXCEPT
            !.heap = Append(@, [NewEntry EXCEPT !.created = t,
                                                !.size = ActionSize,
                                                !.data = e1]),
            !.cache = Store(@, ActionKey(f), Len(st.heap) + 1),
            !.totalA = @ + ActionSize]
    ELSE [st EXCEPT !.heap[Lookup(st.cache, ActionKey(f))].data = e1]

PutAction(st, f, t, e1) ==
    IF Lookup(st.cache, ActionKey(f)) = Nil
    THEN [st EXCEPT
            !.heap = Append(@, [NewEntry EXCEPT !.created = t,
                                                !.size = ActionSize,
                                                !.data = e1]),
            !.cache = Store(@, ActionKey(f), Len(st.heap) + 1),
            !.totalA = @ + ActionSize]
    ELSE st

PutCase(st, f, t, size) ==
    LET s1 == PutData(st, f, t, size)
    IN  PutAction(s1, f, t, Lookup(s1.cache, DataKey(f)))

\* Mutant of MarkAction: every get/miss credits the entry's size.
MarkActionEveryTime(st, e) ==
    [st EXCEPT !.heap[e].reused = TRUE,
               !.totalReusedA = @ + st.heap[e].size]

MarkAction(st, e) ==
    IF ~st.heap[e].reused
    THEN [st EXCEPT !.heap[e].reused = TRUE,
                    !.totalReusedA = @ + st.heap[e].size]
    ELSE st

\* Mutant of MarkData: the data entry's size is credited at every event.
MarkDataEveryTime(st, d) ==
    [st EXCEPT !.heap[d].reused = TRUE,
               !.totalReusedD = @ + st.heap[d].size]

MarkData(st, d) ==
    IF ~st.heap[d].reused
    THEN [st EXCEPT !.heap[d].reused = TRUE,
                    !.totalReusedD = @ + st.heap[d].size]
    ELSE st

\* int(x) of an int64 x.  int is 64 bits wide on the platforms of the go
\* build cache and never narrower than 32 bits; the differences of the
\* timestamps of the model fit in either, so the conversion keeps the value.
ToInt(x) == x

\* Mutant of AppendSamples: the data sample is measured from the action
\* entry's creation.
AppendSamplesFromAction(st, e, t) ==
    [st EXCEPT !.reuseA = Append(@, t - st.heap[e].created),
               !.reuseD = Append(@, t - st.heap[e].created)]

\* Mutant of AppendSamples: the subtraction is the other way round.
AppendSamplesReversed(st, e, t) ==
    [st EXCEPT
        !.reuseA = Append(@, ToInt(st.heap[e].created - t)),
        !.reuseD = Append(@, ToInt(st.heap[st.heap[e].data].created - t))]

AppendSamples(st, e, t) ==
    [st EXCEPT
        !.reuseA = Append(@, ToInt(t - st.heap[e].created)),
        !.reuseD = Append(@, ToInt(t - st.heap[st.heap[e].data].created))]

GetMissHit(st, e, t) ==
    LET s1 == MarkAction(st, e)
    IN  IF s1.heap[e].data = Nil
        THEN [s1 EXCEPT !.pc = "panic"]
        ELSE AppendSamples(MarkData(s1, s1.heap[e].data), e, t)

\* Mutant of GetMissCase: a missing entry is read as the zero entry.
GetMissCaseOrphanSampled(st, f, t) ==
    IF Lookup(st.cache, ActionKey(f)) = Nil
    THEN [st EXCEPT !.reuseA = Append(@, t), !.reuseD = Append(@, t)]
    ELSE GetMissHit(st, Lookup(st.cache, ActionKey(f)), t)

GetMissCase(st, f, t) ==
    IF Lookup(st.cache, ActionKey(f)) = Nil
    THEN st
    ELSE GetMissHit(st, Lookup(st.cache, ActionKey(f)), t)

\* Mutant of OtherCase: an unknown kind is handled as a get.
OtherCaseAsGet(st, f, t) == GetMissCase(st, f, t)

OtherCase(st, f, t) == st

Switch(f) ==
    IF Len(f) = 0 THEN "empty"
    ELSE IF InvalidLine(f) THEN "invalid line"
    ELSE IF ~ParseInt(f[1]).ok THEN "invalid time"
    ELSE IF f[2] = PUT
         THEN IF ~ParseInt(f[5]).ok THEN "invalid size" ELSE "put"
    ELSE IF f[2] \in {GET, MISS} THEN "getmiss"
    ELSE "other"

\* The branch each line takes, tabulated.
Branches == [f \in AllLines |-> Switch(f)]

Branch(f) == Branches[f]

Body(st, f) ==
    LET t == ParseInt(f[1]).val
    IN  CASE Branch(f) = "empty" -> st
          [] Branch(f) = "invalid line" -> [st EXCEPT !.pc = Fatalf]
          [] Branch(f) = "invalid time" -> [st EXCEPT !.pc = Fatalf]
          [] Branch(f) = "invalid size" ->
                [UpdateTimes(st, t) EXCEPT !.pc = Fatalf]
          [] Branch(f) = "put" ->
                PutCase(UpdateTimes(st, t), f, t, ParseInt(f[5]).val)
          [] Branch(f) = "getmiss" -> GetMissCase(UpdateTimes(st, t), f, t)
          [] Branch(f) = "other" -> OtherCase(UpdateTimes(st, t), f, t)

Set(n) ==
    /\ pc' = n.pc
    /\ heap' = n.heap
    /\ cache' = n.cache
    /\ totalA' = n.totalA
    /\ totalReusedA' = n.totalReusedA
    /\ totalD' = n.totalD
    /\ totalReusedD' = n.totalReusedD
    /\ reuseA' = n.reuseA
    /\ reuseD' = n.reuseD
    /\ firstTime' = n.firstTime
    /\ lastTime' = n.lastTime

(***************************************************************************)
(* sort.Ints                                                               *)
(***************************************************************************)
RECURSIVE Insert(_, _)
Insert(x, s) ==
    IF s = <<>> THEN <<x>>
    ELSE IF x <= Head(s) THEN <<x>> \o s
    ELSE <<Head(s)>> \o Insert(x, Tail(s))

RECURSIVE InsertionSort(_)
InsertionSort(s) ==
    IF s = <<>> THEN <<>> ELSE Insert(Head(s), InsertionSort(Tail(s)))

\* Mutant of SortInts: the samples stay in append order.
SortIntsNoop(s) == s

SortInts(s) == InsertionSort(s)

(***************************************************************************)
(* printCache.  A report item carries the arguments of its Printf; an item *)
(* that prints a sample carries the index j it read and the quotient       *)
(* reuse[j] / 86400 as numerator num and denominator den.                  *)
(***************************************************************************)
Percentiles ==
    << <<"10", 10, 100>>, <<"20", 20, 100>>, <<"30", 30, 100>>,
       <<"40", 40, 100>>, <<"50", 50, 100>>, <<"60", 60, 100>>,
       <<"70", 70, 100>>, <<"80", 80, 100>>, <<"90", 90, 100>>,
       <<"95", 95, 100>>, <<"99", 99, 100>>, <<"99.9", 999, 1000>> >>

\* Mutant of PercentileIndex: the index is rounded up.
PercentileIndexCeil(n, num, den) == (n * num + den - 1) \div den

PercentileIndex(n, num, den) == (n * num) \div den

MaxIndex(n) == n - 1

\* The indices printCache reads, in order, each with its label.
Reads(n) ==
    [i \in 1..Len(Percentiles) |->
        [label |-> Percentiles[i][1],
         j |-> PercentileIndex(n, Percentiles[i][2], Percentiles[i][3])]]
    \o << [label |-> "max", j |-> MaxIndex(n)] >>

InRange(j, n) == 0 <= j /\ j < n

\* The number of reads done before the first one out of range panics.
GoodReads(rs, n) ==
    IF \A i \in 1..Len(rs) : InRange(rs[i].j, n) THEN Len(rs)
    ELSE (CHOOSE i \in 1..Len(rs) :
            /\ ~InRange(rs[i].j, n)
            /\ \A k \in 1..(i - 1) : InRange(rs[k].j, n)) - 1

ValueLines(name, reuse, rs, g) ==
    [i \in 1..g |->
        [kind |-> "value", name |-> name, label |-> rs[i].label,
         j |-> rs[i].j, num |-> reuse[rs[i].j + 1], den |-> SecondsPerDay]]

PrintCache(name, total, totalReused, reuse) ==
    LET n  == Len(reuse)
        head == << [kind |-> "total", name |-> name,
                    total |-> total, reused |-> totalReused] >>
    IN  IF n = 0
        THEN [lines |-> head \o << [kind |-> "no reuse", name |-> name] >>,
              panicked |-> FALSE]
        ELSE [lines |-> head \o << [kind |-> "percentiles", name |-> name] >>
                        \o ValueLines(name, reuse, Reads(n),
                                       GoodReads(Reads(n), n)),
              panicked |-> GoodReads(Reads(n), n) < Len(Reads(n))]

(***************************************************************************)
(* The delta-tracking variant (src/unnamed/part_000).  Its entry has the   *)
(* field lastReused, its loop body tells a first reuse by lastReused == 0  *)
(* and appends two more samples per get/miss, and its printCache prints a  *)
(* second block of percentiles from reuseDelta.  The field splitting, the  *)
(* validation and the switch are those of main.go, line for line.          *)
(***************************************************************************)
XNewEntry ==
    [created |-> 0, lastReused |-> 0, size |-> 0, reused |-> FALSE,
     data |-> Nil]

XInit ==
    [pc |-> "scan", heap |-> <<>>, cache |-> <<>>,
     totalA |-> 0, totalReusedA |-> 0, totalD |-> 0, totalReusedD |-> 0,
     reuseA |-> <<>>, reuseD |-> <<>>,
     reuseDeltaA |-> <<>>, reuseDeltaD |-> <<>>,
     firstTime |-> 0, lastTime |-> 0, out |-> <<>>]

XUpdateTimes(st, t) ==
    [st EXCEPT !.firstTime = IF st.firstTime = 0 THEN t ELSE @,
               !.lastTime = t]

XPutData(st, f, t, size) ==
    IF Lookup(st.cache, DataKey(f)) = Nil
    THEN [st EXCEPT
            !.heap = Append(@, [XNewEntry EXCEPT !.created = t,
                                                 !.size = size]),
            !.cache = Store(@, DataKey(f), Len(st.heap) + 1),
            !.totalD = @ + size]
    ELSE st

XPutAction(st, f, t, e1) ==
    IF Lookup(st.cache, ActionKey(f)) = Nil
    THEN [st EXCEPT
            !.heap = Append(@, [XNewEntry EXCEPT !.created = t,
                                                 !.size = ActionSize,
                                                 !.data = e1]),
            !.cache = Store(@, ActionKey(f), Len(st.heap) + 1),
            !.totalA = @ + ActionSize]
    ELSE st

XPutCase(st, f, t, size) ==
    LET s1 == XPutData(st, f, t, size)
    IN  XPutAction(s1, f, t, Lookup(s1.cache, DataKey(f)))

XMarkAction(st, e) ==
    IF st.heap[e].lastReused = 0
    THEN [st EXCEPT !.totalReusedA = @ + st.heap[e].size,
                    !.heap[e].lastReused = st.heap[e].created]
    ELSE st

XMarkData(st, d) ==
    IF st.heap[d].lastReused = 0
    THEN [st EXCEPT !.totalReusedD = @ + st.heap[d].size,
                    !.heap[d].lastReused = st.heap[d].created]
    ELSE st

\* Mutant of XAppendSamples: no delta sample for the data entry.
XAppendSamplesNoDeltaD(st, e, t) ==
    LET d == st.heap[e].data
    IN  [st EXCEPT
            !.reuseA = Append(@, ToInt(t - st.heap[e].created)),
            !.reuseD = Append(@, ToInt(t - st.heap[d].created)),
            !.reuseDeltaA = Append(@, ToInt(t - st.heap[e].lastReused))]

XAppendSamples(st, e, t) ==
    LET d == st.heap[e].data
    IN  [st EXCEPT
            !.reuseA = Append(@, ToInt(t - st.heap[e].created)),
            !.reuseD = Append(@, ToInt(t - st.heap[d].created)),
            !.reuseDeltaA = Append(@, ToInt(t - st.heap[e].lastReused)),
            !.reuseDeltaD = Append(@, ToInt(t - st.heap[d].lastReused))]

\* e.lastReused = t, then e.data.lastReused = t.
XTouch(st, e, t) ==
    LET s1 == [st EXCEPT !.heap[e].lastReused = t]
    IN  [s1 EXCEPT !.heap[s1.heap[e].data].lastReused = t]

XGetMissHit(st, e, t) ==
    LET s1 == XMarkAction(st, e)
    IN  IF s1.heap[e].data = Nil
        THEN [s1 EXCEPT !.pc = "panic"]
        ELSE XTouch(XAppendSamples(XMarkData(s1, s1.heap[e].data), e, t),
                    e, t)

XGetMissCase(st, f, t) ==
    IF Lookup(st.cache, ActionKey(f)) = Nil
    THEN st
    ELSE XGetMissHit(st, Lookup(st.cache, ActionKey(f)), t)

XBody(st, f) ==
    LET t == ParseInt(f[1]).val
    IN  CASE Branch(f) = "empty" -> st
          [] Branch(f) = "invalid line" -> [st EXCEPT !.pc = Fatalf]
          [] Branch(f) = "invalid time" -> [st EXCEPT !.pc = Fatalf]
          [] Branch(f) = "invalid size" ->
                [XUpdateTimes(st, t) EXCEPT !.pc = Fatalf]
          [] Branch(f) = "put" ->
                XPutCase(XUpdateTimes(st, t), f, t, ParseInt(f[5]).val)
          [] Branch(f) = "getmiss" -> XGetMissCase(XUpdateTimes(st, t), f, t)
          [] Branch(f) = "other" -> XUpdateTimes(st, t)

\* The indices the second block reads in reuseDelta: the loop computes them
\* from len(reuseDelta) = m, the last four lines from len(reuse) = n.
XDeltaReads(n, m) ==
    [i \in 1..9 |->
        [label |-> Percentiles[i][1],
         j |-> (m * Percentiles[i][2]) \div Percentiles[i][3]]]
    \o [i \in 1..3 |->
        [label |-> Percentiles[9 + i][1],
         j |-> (n * Percentiles[9 + i][2]) \div Percentiles[9 + i][3]]]
    \o << [label |-> "max", j |-> n - 1] >>

XValueLines(kind, name, seq, rs, g) ==
    [i \in 1..g |->
        [kind |-> kind, name |-> name, label |-> rs[i].label,
         j |-> rs[i].j, num |-> seq[rs[i].j + 1], den |-> SecondsPerDay]]

XPrintCache(name, total, totalReused, reuse, reuseDelta) ==
    LET n  == Len(reuse)
        m  == Len(reuseDelta)
        head == << [kind |-> "total", name |-> name,
                    total |-> total, reused |-> totalReused] >>
    IN  IF n = 0
        THEN [lines |-> head \o << [kind |-> "no reuse", name |-> name] >>,
              panicked |-> FALSE]
        ELSE [lines |->
                head \o << [kind |-> "percentiles", name |-> name] >>
                \o XValueLines("value", name, reuse, Reads(n),
                               GoodReads(Reads(n), n))
                \o << [kind |-> "delta percentiles", name |-> name] >>
                \o XValueLines("delta", name, reuseDelta, XDeltaReads(n, m),
                               GoodReads(XDeltaReads(n, m), m)),
              panicked |-> GoodReads(XDeltaReads(n, m), m)
                             < Len(XDeltaReads(n, m))]

\* The four sorts and the report.
XReport(st) ==
    LET ra == SortInts(st.reuseA)
        rd == SortInts(st.reuseD)
        da == SortInts(st.reuseDeltaA)
        dd == SortInts(st.reuseDeltaD)
        a  == XPrintCache("action", st.totalA, st.totalReusedA, ra, da)
        d  == XPrintCache("data", st.totalD, st.totalReusedD, rd, dd)
    IN  [st EXCEPT
            !.reuseA = ra, !.reuseD = rd,
            !.reuseDeltaA = da, !.reuseDeltaD = dd,
            !.out = << [kind |-> "please add"], [kind |-> "fence"],
                       [kind |-> "age", num |-> st.lastTime - st.firstTime,
                        den |-> SecondsPerDay] >>
                    \o a.lines
                    \o (IF a.panicked THEN <<>> ELSE d.lines)
                    \o << [kind |-> "fence"] >>,
            !.pc = IF a.panicked \/ d.panicked THEN "panic" ELSE "done"]

(***************************************************************************)
(* Actions                                                                 *)
(***************************************************************************)
Init ==
    /\ log = <<>>
    /\ pc = "scan"
    /\ heap = <<>>
    /\ cache = <<>>
    /\ totalA = 0 /\ totalReusedA = 0 /\ totalD = 0 /\ totalReusedD = 0
    /\ reuseA = <<>> /\ reuseD = <<>>
    /\ firstTime = 0 /\ lastTime = 0
    /\ out = <<>>
    /\ ext = XInit

\* The loop has a next line to read.
Scanning == pc = "scan" /\ Len(log) < MaxLines

\* One iteration of the loop over the lines, on line f.
ReadLine(f) ==
    /\ log' = Append(log, f)
    /\ \E n \in {Body(Cur, f)} : Set(n)
    /\ ext' = IF ext.pc = "scan" THEN XBody(ext, f) ELSE ext
    /\ UNCHANGED out

EmptyLine == Scanning /\ \E f \in Lines : Branch(f) = "empty" /\ ReadLine(f)

FatalLine == Scanning /\ \E f \in Lines : Branch(f) = "invalid line" /\ ReadLine(f)

FatalTime == Scanning /\ \E f \in Lines : Branch(f) = "invalid time" /\ ReadLine(f)

FatalSize == Scanning /\ \E f \in Lines : Branch(f) = "invalid size" /\ ReadLine(f)

Put == Scanning /\ \E f \in Lines : Branch(f) = "put" /\ ReadLine(f)

GetMiss == Scanning /\ \E f \in Lines : Branch(f) = "getmiss" /\ ReadLine(f)

Other == Scanning /\ \E f \in Lines : Branch(f) = "other" /\ ReadLine(f)

\* The end of the log: the sorts and the report.
Report ==
    /\ pc = "scan"
    /\ reuseA' = SortInts(reuseA)
    /\ reuseD' = SortInts(reuseD)
    /\ \E a \in {PrintCache("action", totalA, totalReusedA, reuseA')},
          d \in {PrintCache("data", totalD, totalReusedD, reuseD')} :
          /\ out' = << [kind |-> "please add"], [kind |-> "fence"],
                       [kind |-> "age", num |-> lastTime - firstTime,
                        den |-> SecondsPerDay] >>
                    \o a.lines
                    \o (IF a.panicked THEN <<>> ELSE d.lines)
                    \o << [kind |-> "fence"] >>
          /\ pc' = IF a.panicked \/ d.panicked THEN "panic" ELSE "done"
    /\ ext' = IF ext.pc = "scan" THEN XReport(ext) ELSE ext
    /\ UNCHANGED <<log, heap, cache, totalA, totalReusedA, totalD,
                   totalReusedD, firstTime, lastTime>>

Next ==
    \/ EmptyLine
    \/ FatalLine
    \/ FatalTime
    \/ FatalSize
    \/ Put
    \/ GetMiss
    \/ Other
    \/ Report

Spec == Init /\ [][Next]_vars

(***************************************************************************)
(* The same program on the logs that are one put line followed by up to    *)
(* MaxSamples get/miss lines: the logs that give the reporter its longest  *)
(* sample sequences.                                                       *)
(***************************************************************************)
PutFirst == pc = "scan" /\ log = <<>> /\ \E f \in PutLines : ReadLine(f)

GetMissNext ==
    /\ pc = "scan"
    /\ log # <<>>
    /\ Len(log) <= MaxSamples
    /\ \E f \in GetLines : ReadLine(f)

NextSamples ==
    \/ PutFirst
    \/ GetMissNext
    \/ Report

SpecSamples == Init /\ [][NextSamples]_vars

(***************************************************************************)
(* Short logs over the lines with extra fields as well: up to              *)
(* MaxFieldLines lines of AllLines, then the report.                       *)
(***************************************************************************)
ReadAny ==
    /\ pc = "scan"
    /\ Len(log) < MaxFieldLines
    /\ \E f \in AllLines : ReadLine(f)

NextFields ==
    \/ ReadAny
    \/ Report

SpecFields == Init /\ [][NextFields]_vars

(***************************************************************************)
(* What the log says, for stating the properties: the lines by kind, the   *)
(* first put that names a key, and the get/miss lines that hit an entry.   *)
(***************************************************************************)
Time(f) == ParseInt(f[1]).val

IsPut(f) == Len(f) = 5 /\ f[2] = PUT /\ ParseInt(f[1]).ok /\ ParseInt(f[5]).ok

IsGetMiss(f) == Len(f) >= 3 /\ f[2] \in {GET, MISS} /\ ParseInt(f[1]).ok

IsUnknownKind(f) ==
    Len(f) >= 3 /\ f[2] \notin {PUT, GET, MISS} /\ ParseInt(f[1]).ok

Malformed(f) ==
    /\ Len(f) > 0
    /\ \/ Len(f) < 3
       \/ (f[2] = PUT /\ Len(f) # 5)
       \/ ~ParseInt(f[1]).ok
       \/ (f[2] = PUT /\ ~ParseInt(f[5]).ok)

\* The raw identifiers that the put lines of the log name in field col.
PutIds(col) == {log[j][col] : j \in {i \in 1..Len(log) : IsPut(log[i])}}

\* The first put line that names raw identifier k in field col.
FirstPut(k, col) ==
    CHOOSE j \in 1..Len(log) :
        /\ IsPut(log[j]) /\ log[j][col] = k
        /\ \A i \in 1..(j - 1) : ~(IsPut(log[i]) /\ log[i][col] = k)

\* Line i is a get/miss whose action key an earlier put named.
IsHit(i) ==
    /\ IsGetMiss(log[i])
    /\ \E j \in 1..(i - 1) : IsPut(log[j]) /\ log[j][3] = log[i][3]

HitLines(k) == {i \in 1..Len(log) : IsHit(i) /\ log[i][3] = k}

Hits == {i \in 1..Len(log) : IsHit(i)}

ActionEntry(k) == heap[cache[k \o ASuffix]]
DataEntry(k)   == heap[cache[k \o DSuffix]]

RECURSIVE SumSize(_)
SumSize(S) ==
    IF S = {} THEN 0
    ELSE LET x == CHOOSE y \in S : TRUE
         IN  heap[x].size + SumSize(S \ {x})

Accepted == pc # "fatal"

(***************************************************************************)
(* C1.  Idempotent reuse accounting: for every accepted log and every      *)
(* action key that was put, the k >= 1 get/miss lines on it credit its     *)
(* size to totalReusedA once and the size of its data entry to             *)
(* totalReusedD once (the reused flag is set from the first such line on), *)
(* and each of the k lines adds one sample to both sample sequences.       *)
(***************************************************************************)
ReusedIds == {k \in PutIds(3) : HitLines(k) # {}}

C1_IdempotentReuse ==
    Accepted =>
        /\ \A k \in PutIds(3) : ActionEntry(k).reused <=> HitLines(k) # {}
        /\ \A k \in PutIds(3) :
              HitLines(k) # {} => heap[ActionEntry(k).data].reused
        /\ totalReusedA = SumSize({cache[k \o ASuffix] : k \in ReusedIds})
        /\ totalReusedD = SumSize({ActionEntry(k).data : k \in ReusedIds})
        /\ Len(reuseA) = Cardinality(Hits)
        /\ Len(reuseD) = Cardinality(Hits)

C1_Witness ==
    /\ pc = "scan"
    /\ \E k \in PutIds(3) : Cardinality(HitLines(k)) >= 2
    /\ totalReusedA = ActionSize

(***************************************************************************)
(* C2.  First-write-wins: every entry keeps the created, size and data     *)
(* reference that the first put naming its key gave it, whatever later put *)
(* lines name that key, and the totals count every key once.               *)
(***************************************************************************)
RECURSIVE SumFirstSizes(_)
SumFirstSizes(S) ==
    IF S = {} THEN 0
    ELSE LET k == CHOOSE y \in S : TRUE
         IN  ParseInt(log[FirstPut(k, 4)][5]).val + SumFirstSizes(S \ {k})

C2_FirstWriteWins ==
    Accepted =>
        /\ DOMAIN cache = {k \o ASuffix : k \in PutIds(3)}
                          \cup {k \o DSuffix : k \in PutIds(4)}
        /\ Len(heap) = Cardinality(PutIds(3)) + Cardinality(PutIds(4))
        /\ \A x, y \in DOMAIN cache : cache[x] = cache[y] => x = y
        /\ \A k \in PutIds(3) :
              LET f == log[FirstPut(k, 3)]
              IN  /\ ActionEntry(k).created = Time(f)
                  /\ ActionEntry(k).size = ActionSize
                  /\ ActionEntry(k).data = cache[f[4] \o DSuffix]
        /\ \A k \in PutIds(4) :
              LET f == log[FirstPut(k, 4)]
              IN  /\ DataEntry(k).created = Time(f)
                  /\ DataEntry(k).size = ParseInt(f[5]).val
        /\ totalA = ActionSize * Cardinality(PutIds(3))
        /\ totalD = SumFirstSizes(PutIds(4))

C2_Witness ==
    /\ pc = "scan"
    /\ \E i, j \in 1..Len(log) :
          /\ i < j /\ IsPut(log[i]) /\ IsPut(log[j])
          /\ log[i][3] = log[j][3] /\ log[i][4] # log[j][4]
          /\ log[i][1] # log[j][1]
    /\ \E i, j \in 1..Len(log) :
          /\ i < j /\ IsPut(log[i]) /\ IsPut(log[j])
          /\ log[i][4] = log[j][4] /\ log[i][5] # log[j][5]

(***************************************************************************)
(* C3.  After the scan of an accepted log with a non-empty line, firstTime *)
(* is the timestamp of the first non-empty line and lastTime that of the   *)
(* last non-empty line, whatever the kinds and the timestamps.             *)
(***************************************************************************)
NonEmptyLines == {i \in 1..Len(log) : Len(log[i]) > 0}

FirstNonEmpty == CHOOSE i \in NonEmptyLines : \A j \in NonEmptyLines : i <= j
LastNonEmpty  == CHOOSE i \in NonEmptyLines : \A j \in NonEmptyLines : j <= i

C3_FirstLastTime ==
    (pc = "done" /\ NonEmptyLines # {}) =>
        /\ firstTime = Time(log[FirstNonEmpty])
        /\ lastTime = Time(log[LastNonEmpty])

(***************************************************************************)
(* C4.  A malformed line aborts the run before any output: the run is      *)
(* aborted at the first malformed line, nothing of the report is emitted   *)
(* then or while the scan is going on, and the report is emitted only once *)
(* the scan is over.                                                       *)
(***************************************************************************)
C4_MalformedAborts ==
    /\ \A i \in 1..Len(log) :
          Malformed(log[i]) => (pc = "fatal" /\ i = Len(log) /\ out = <<>>)
    /\ pc \in {"scan", "fatal"} => out = <<>>
    /\ out # <<>> => pc = "done"

C4_Witness ==
    /\ pc = "fatal"
    /\ Len(log) >= 3
    /\ Malformed(log[Len(log)])
    /\ reuseA # <<>>

(***************************************************************************)
(* C5.  An orphan get/miss line (no earlier put names its action key)      *)
(* leaves the registry, the four totals and both sample sequences as they  *)
(* were and is no error; a log of orphan get/miss lines only has all       *)
(* totals zero and both sample sequences empty.                            *)
(***************************************************************************)
LastLine == log'[Len(log')]

LineRead ==
    pc = "scan" /\ Len(log') = Len(log) + 1 /\ log' = Append(log, LastLine)

OrphanStep ==
    /\ LineRead
    /\ IsGetMiss(LastLine)
    /\ LastLine[3] \notin PutIds(3)

C5_OrphanNoEffect ==
    /\ [][OrphanStep =>
            /\ pc' = "scan"
            /\ UNCHANGED <<heap, cache, totalA, totalReusedA, totalD,
                           totalReusedD, reuseA, reuseD>>]_vars
    /\ []((\A i \in 1..Len(log) : IsGetMiss(log[i])) =>
            /\ totalA = 0 /\ totalReusedA = 0
            /\ totalD = 0 /\ totalReusedD = 0
            /\ reuseA = <<>> /\ reuseD = <<>>
            /\ cache = <<>>)

C5_Witness ==
    /\ pc = "scan"
    /\ Len(log) >= 3
    /\ IsGetMiss(log[Len(log)])
    /\ ~IsHit(Len(log))
    /\ reuseA # <<>>

(***************************************************************************)
(* C6.  Every get/miss line at time t on an existing action entry e adds   *)
(* exactly t - e.created to the action samples and t - e.data.created to   *)
(* the data samples; a log "put A D s" at t0 followed by gets on A at      *)
(* t1..tk gives both sample sequences [t1-t0, .., tk-t0] in append order   *)
(* and the totals 154, s, 154 and s.                                       *)
(***************************************************************************)
RECURSIVE SamplesA(_)
SamplesA(n) ==
    IF n = 0 THEN <<>>
    ELSE IF IsHit(n)
         THEN Append(SamplesA(n - 1),
                     Time(log[n]) - ActionEntry(log[n][3]).created)
         ELSE SamplesA(n - 1)

RECURSIVE SamplesD(_)
SamplesD(n) ==
    IF n = 0 THEN <<>>
    ELSE IF IsHit(n)
         THEN Append(SamplesD(n - 1),
                     Time(log[n])
                       - heap[ActionEntry(log[n][3]).data].created)
         ELSE SamplesD(n - 1)

\* The log is a put followed by one or more get/miss lines on its action key.
PutThenGets ==
    /\ Len(log) >= 2
    /\ IsPut(log[1])
    /\ \A i \in 2..Len(log) : IsGetMiss(log[i]) /\ log[i][3] = log[1][3]

C6_SamplePerEvent ==
    pc = "scan" =>
        /\ reuseA = SamplesA(Len(log))
        /\ reuseD = SamplesD(Len(log))
        /\ PutThenGets =>
              /\ reuseA = [i \in 1..(Len(log) - 1) |->
                              Time(log[i + 1]) - Time(log[1])]
              /\ reuseD = reuseA
              /\ totalA = ActionSize
              /\ totalD = ParseInt(log[1][5]).val
              /\ totalReusedA = ActionSize
              /\ totalReusedD = totalD

C6_Witness ==
    /\ pc = "scan"
    /\ PutThenGets
    /\ Len(log) >= 3
    /\ Time(log[2]) > Time(log[3])
    /\ Len(reuseA) = Len(log) - 1

(***************************************************************************)
(* C7.  Every action entry of the registry has a data reference that is    *)
(* not nil and is the entry the registry holds under some data key, so a   *)
(* get/miss on an action entry never dereferences nil.                     *)
(***************************************************************************)
HasSuffix(k, suf) ==
    Len(k) >= Len(suf) /\ SubSeq(k, Len(k) - Len(suf) + 1, Len(k)) = suf

C7_DataReference ==
    /\ pc # "panic"
    /\ \A k \in DOMAIN cache :
          HasSuffix(k, ASuffix) =>
              /\ heap[cache[k]].data # Nil
              /\ \E dk \in DOMAIN cache :
                    HasSuffix(dk, DSuffix) /\ cache[dk] = heap[cache[k]].data

C7_Witness ==
    /\ pc = "scan"
    /\ reuseA # <<>>
    /\ \E x, y \in DOMAIN cache :
          /\ x # y /\ HasSuffix(x, ASuffix) /\ HasSuffix(y, ASuffix)
          /\ heap[cache[x]].data = heap[cache[y]].data

(***************************************************************************)
(* C8.  The reporter never reads outside its sample sequence: an empty     *)
(* sequence gets "no reuse" and no lookup; a non-empty one of length n is  *)
(* read at floor(n*p/100) for p = 10, .., 90, 95, 99, at floor(n*999/1000) *)
(* for 99.9 and at n - 1 for the maximum, all of them within 0..n-1.       *)
(***************************************************************************)
ValueItems(name) ==
    SelectSeq(out, LAMBDA it : it.kind = "value" /\ it.name = name)

NoReuseItems(name) ==
    SelectSeq(out, LAMBDA it : it.kind = "no reuse" /\ it.name = name)

Reported == { <<"action", reuseA>>, <<"data", reuseD>> }

C8_ReadsInRange ==
    /\ pc # "panic"
    /\ pc = "done" =>
          \A r \in Reported :
              LET n  == Len(r[2])
                  vs == ValueItems(r[1])
              IN  IF n = 0
                  THEN vs = <<>> /\ Len(NoReuseItems(r[1])) = 1
                  ELSE /\ NoReuseItems(r[1]) = <<>>
                       /\ Len(vs) = Len(Percentiles) + 1
                       /\ \A i \in 1..Len(vs) : vs[i].j \in 0..(n - 1)
                       /\ \A i \in 1..Len(Percentiles) :
                             /\ vs[i].label = Percentiles[i][1]
                             /\ vs[i].j = (n * Percentiles[i][2])
                                            \div Percentiles[i][3]
                       /\ vs[Len(vs)].j = n - 1

C8_Witness ==
    /\ pc = "done"
    /\ Len(reuseA) >= 5
    /\ \E i, k \in 1..Len(ValueItems("action")) :
          ValueItems("action")[i].j # ValueItems("action")[k].j

(***************************************************************************)
(* C9.  For every non-empty sample sequence the reported percentile values *)
(* do not decrease from 10 to 99.9, and the reported maximum is at least   *)
(* every reported percentile value.                                        *)
(***************************************************************************)
\* Report item x prints a value no greater than item y does.
ValueLeq(x, y) == x.num * y.den <= y.num * x.den

C9_PercentilesMonotonic ==
    pc = "done" =>
        \A r \in Reported :
            LET vs == ValueItems(r[1])
            IN  Len(r[2]) > 0 =>
                    /\ Len(vs) = Len(Percentiles) + 1
                    /\ \A i, k \in 1..Len(Percentiles) :
                          i < k => ValueLeq(vs[i], vs[k])
                    /\ \A i \in 1..Len(Percentiles) :
                          ValueLeq(vs[i], vs[Len(vs)])

C9_Witness ==
    /\ pc = "done"
    /\ Len(reuseA) >= 5
    /\ reuseA # SamplesA(Len(log))
    /\ \E i, k \in 1..Len(ValueItems("action")) :
          ValueItems("action")[i].num < ValueItems("action")[k].num

(***************************************************************************)
(* C10.  A line of an unrecognized kind (three fields or more, an integer  *)
(* timestamp, a kind other than put, get and miss) is no error and leaves  *)
(* the registry, the four totals, both sample sequences and the report as  *)
(* they were, wherever it occurs.  As claimed, only lastTime changes.  As  *)
(* amended, lastTime becomes the line's timestamp and firstTime becomes it *)
(* too when firstTime is still 0 (as it is on the first non-empty line).   *)
(***************************************************************************)
UnknownKindStep == LineRead /\ IsUnknownKind(LastLine)

C10_UnknownKindOnlyLastTime ==
    [][UnknownKindStep =>
        /\ pc' = "scan"
        /\ lastTime' = Time(LastLine)
        /\ UNCHANGED <<heap, cache, totalA, totalReusedA, totalD,
                       totalReusedD, reuseA, reuseD, firstTime, out>>]_vars

C10_UnknownKindOnlyTimes ==
    [][UnknownKindStep =>
        /\ pc' = "scan"
        /\ lastTime' = Time(LastLine)
        /\ firstTime' = IF firstTime = 0 THEN Time(LastLine) ELSE firstTime
        /\ UNCHANGED <<heap, cache, totalA, totalReusedA, totalD,
                       totalReusedD, reuseA, reuseD, out>>]_vars

C10_Witness ==
    /\ pc = "scan"
    /\ Len(log) >= 3
    /\ IsUnknownKind(log[Len(log)])
    /\ lastTime = Time(log[Len(log)])
    /\ IsGetMiss(log[Len(log) - 1])
    /\ Time(log[Len(log) - 1]) # lastTime
    /\ log[Len(log)][3] \in PutIds(3)
    /\ reuseA # <<>>

(***************************************************************************)
(* C11.  Samples are non-negative.  As stated, for every accepted log      *)
(* every sample appended to reuseA and reuseD is a non-negative integer    *)
(* (C11_SamplesNonNegative).  The parser accepts timestamps in any order,  *)
(* and a get/miss line stamped earlier than the put that created the entry *)
(* appends a negative sample.  What holds: when the timestamps of the log  *)
(* do not decrease in file order, every sample is non-negative             *)
(* (C11_MonotoneSamplesNonNegative).                                       *)
(***************************************************************************)
\* The timestamps of the consumed lines do not decrease in file order.
Monotone ==
    \A i, j \in NonEmptyLines :
        (i < j /\ ~Malformed(log[i]) /\ ~Malformed(log[j]))
            => Time(log[i]) <= Time(log[j])

NonNegative(seq) == \A i \in 1..Len(seq) : seq[i] >= 0

C11_SamplesNonNegative ==
    Accepted => (NonNegative(reuseA) /\ NonNegative(reuseD))

C11_MonotoneSamplesNonNegative ==
    (Accepted /\ Monotone) => (NonNegative(reuseA) /\ NonNegative(reuseD))

C11_Witness ==
    /\ pc = "scan" /\ Monotone
    /\ Len(reuseA) >= 2
    /\ \E i \in 1..Len(reuseD) : reuseD[i] > 0

(***************************************************************************)
(* C12.  Reuse detection by lastReused == 0 in the delta-tracking variant: *)
(* each action entry's size is added to totalReusedA at most once and each *)
(* data entry's size to totalReusedD at most once, whatever integer values *)
(* the timestamps take.  So the two accumulators are the sizes of the      *)
(* entries that some get/miss line reached, each counted once.             *)
(***************************************************************************)
RECURSIVE XSumSize(_)
XSumSize(S) ==
    IF S = {} THEN 0
    ELSE LET x == CHOOSE y \in S : TRUE
         IN  ext.heap[x].size + XSumSize(S \ {x})

XActionAddr(k) == ext.cache[k \o ASuffix]

C12_CreditedAtMostOnce ==
    ext.pc # "fatal" =>
        /\ ext.totalReusedA = XSumSize({XActionAddr(k) : k \in ReusedIds})
        /\ ext.totalReusedD =
              XSumSize({ext.heap[XActionAddr(k)].data : k \in ReusedIds})

(***************************************************************************)
(* C13.  Delta tracking is purely additive: on the same accepted log the   *)
(* two variants end with identical totalA, totalReusedA, totalD,           *)
(* totalReusedD, reuseA, reuseD, firstTime and lastTime.                   *)
(***************************************************************************)
C13_VariantsAgree ==
    (pc = "done" /\ ext.pc = "done") =>
        /\ ext.totalA = totalA /\ ext.totalReusedA = totalReusedA
        /\ ext.totalD = totalD /\ ext.totalReusedD = totalReusedD
        /\ ext.reuseA = reuseA /\ ext.reuseD = reuseD
        /\ ext.firstTime = firstTime /\ ext.lastTime = lastTime

(***************************************************************************)
(* C14.  An action's data reference is fixed at creation.  When a put line *)
(* names an action key A that exists already (created with data key D1)    *)
(* and a data key D2 that is new, the D2 entry is created and its size is  *)
(* added to totalD, but A keeps referencing D1: the get/miss lines on A    *)
(* mark D1 reused, credit D1's size to totalReusedD and measure their data *)
(* sample from D1's creation; D2 is reused only through an action created  *)
(* with it.                                                                *)
(***************************************************************************)
\* The data identifier of the put line that created action key k.
FirstData(k) == log[FirstPut(k, 3)][4]

\* Put lines that name an existing action key and a new data key.
Repointing ==
    {j \in 1..Len(log) :
        /\ IsPut(log[j])
        /\ FirstPut(log[j][3], 3) < j
        /\ FirstPut(log[j][4], 4) = j}

\* The position in the sample sequences of the sample of hit line i.
SampleOf(i) == Cardinality({h \in Hits : h <= i})

C14_DataReferenceFixed ==
    pc = "scan" =>
        /\ totalD = SumFirstSizes(PutIds(4))
        /\ totalReusedD = SumFirstSizes({FirstData(k) : k \in ReusedIds})
        /\ \A j \in Repointing :
              LET k  == log[j][3]
                  d1 == FirstData(k)
                  d2 == log[j][4]
              IN  /\ (d2 \o DSuffix) \in DOMAIN cache
                  /\ DataEntry(d2).created = Time(log[j])
                  /\ DataEntry(d2).size = ParseInt(log[j][5]).val
                  /\ ActionEntry(k).data = cache[d1 \o DSuffix]
                  /\ ActionEntry(k).data # cache[d2 \o DSuffix]
                  /\ HitLines(k) # {} => DataEntry(d1).reused
                  /\ DataEntry(d2).reused
                        <=> \E k2 \in ReusedIds : FirstData(k2) = d2
                  /\ \A i \in HitLines(k) :
                        reuseD[SampleOf(i)]
                            = Time(log[i]) - DataEntry(d1).created

C14_Witness ==
    /\ pc = "scan"
    /\ \E j \in Repointing :
          /\ HitLines(log[j][3]) # {}
          /\ \E i \in HitLines(log[j][3]) : i > j
          /\ ~DataEntry(log[j][4]).reused
          /\ DataEntry(FirstData(log[j][3])).reused
          /\ DataEntry(log[j][4]).size # DataEntry(FirstData(log[j][3])).size

(***************************************************************************)
(* C15.  A data entry shared by several action entries is credited once.   *)
(* When different action keys were created with the same data key D, then  *)
(* over any interleaving of get/miss lines on them D's size is added to    *)
(* totalReusedD exactly once (at the first event on any of them), each     *)
(* action's size is added to totalReusedA at that action's own first       *)
(* event, and every event appends a data sample measured from D's          *)
(* creation.                                                               *)
(***************************************************************************)
\* The action keys that were created with data identifier d.
Sharers(d) == {k \in PutIds(3) : FirstData(k) = d}

HitSharers(d) == {k \in Sharers(d) : HitLines(k) # {}}

C15_SharedDataCreditedOnce ==
    Accepted =>
        /\ totalReusedD =
              SumFirstSizes({d \in PutIds(4) : HitSharers(d) # {}})
        /\ totalReusedA = ActionSize * Cardinality(ReusedIds)
        /\ \A d \in PutIds(4) :
              /\ \A k \in Sharers(d) :
                    /\ ActionEntry(k).data = cache[d \o DSuffix]
                    /\ ActionEntry(k).reused <=> k \in HitSharers(d)
              /\ Sharers(d) # {}
                    => (DataEntry(d).reused <=> HitSharers(d) # {})
              /\ pc = "scan" =>
                    \A k \in Sharers(d) : \A i \in HitLines(k) :
                        /\ reuseD[SampleOf(i)]
                              = Time(log[i]) - Time(log[FirstPut(d, 4)])
                        /\ reuseA[SampleOf(i)]
                              = Time(log[i]) - Time(log[FirstPut(k, 3)])

C15_Witness ==
    /\ pc = "scan"
    /\ \E d \in PutIds(4) :
          /\ Cardinality(HitSharers(d)) = 2
          /\ totalReusedD = DataEntry(d).size
          /\ totalReusedA = 2 * ActionSize
          /\ Len(reuseD) = 2

(***************************************************************************)
(* C16.  The parser aborts on a non-empty line if and only if the line has *)
(* fewer than 3 fields, or is a put with a field count other than 5, or    *)
(* has a non-integer timestamp, or is a put with a non-integer size.  So   *)
(* get, miss and unknown-kind lines with more than 3 fields are accepted,  *)
(* and their trailing fields have no effect: the line leaves the state     *)
(* that its first three fields alone would have left.                      *)
(***************************************************************************)
AbortsIffMalformed ==
    /\ pc = "fatal" <=> (log # <<>> /\ Malformed(log[Len(log)]))
    /\ \A i \in 1..(Len(log) - 1) : ~Malformed(log[i])

TrailingFields(f) == Len(f) > 3 /\ (IsGetMiss(f) \/ IsUnknownKind(f))

TrailingStep == LineRead /\ TrailingFields(LastLine)

C16_AbortIffMalformed ==
    /\ [](AbortsIffMalformed)
    /\ [][TrailingStep =>
            /\ pc' = "scan"
            /\ Cur' = Body(Cur, SubSeq(LastLine, 1, 3))
            /\ ext' = XBody(ext, SubSeq(LastLine, 1, 3))]_vars

C16_Witness ==
    /\ pc = "scan"
    /\ Len(log) >= 3
    /\ TrailingFields(log[2]) /\ IsUnknownKind(log[2])
    /\ TrailingFields(log[3]) /\ IsGetMiss(log[3]) /\ Len(log[3]) = 5
    /\ Len(reuseA) = 1

(***************************************************************************)
(* C17.  The two roles are kept apart.  A raw identifier put as an action  *)
(* key and as a data key yields two distinct entries, one of each role; an *)
(* identifier put only as a data key is not found by a get/miss line,      *)
(* which is then an orphan and changes nothing but the times; and no       *)
(* choice of identifiers makes an action-role key equal a data-role key.   *)
(***************************************************************************)
\* Identifiers of up to three characters, among them ones that end in a
\* role suffix themselves.
IdChars == {"A", "-", "a", "d"}

IdPool ==
    {<<c>> : c \in IdChars}
    \cup {<<c, d>> : c \in IdChars, d \in IdChars}
    \cup {<<c, d, e>> : c \in IdChars, d \in IdChars, e \in IdChars}

NoRoleCollision == \A x, y \in IdPool : x \o ASuffix # y \o DSuffix

RolesApart ==
    Accepted =>
        /\ DOMAIN cache = {k \o ASuffix : k \in PutIds(3)}
                          \cup {k \o DSuffix : k \in PutIds(4)}
        /\ \A k \in PutIds(3) \cap PutIds(4) :
              /\ cache[k \o ASuffix] # cache[k \o DSuffix]
              /\ ActionEntry(k).size = ActionSize
              /\ ActionEntry(k).data # Nil
              /\ DataEntry(k).size = ParseInt(log[FirstPut(k, 4)][5]).val
              /\ DataEntry(k).data = Nil
        /\ \A k \in PutIds(4) \ PutIds(3) :
              /\ Lookup(cache, k \o ASuffix) = Nil
              /\ ~DataEntry(k).reused
                    => \A a \in Sharers(k) : HitLines(a) = {}
        /\ NoRoleCollision

\* The line read is a get/miss on an identifier that earlier lines put as a
\* data key only.
DataOnlyStep ==
    /\ LineRead /\ IsGetMiss(LastLine)
    /\ LastLine[3] \in PutIds(4) \ PutIds(3)

C17_RolesApart ==
    /\ [](RolesApart)
    /\ [][DataOnlyStep =>
            /\ pc' = "scan"
            /\ UNCHANGED <<heap, cache, totalA, totalReusedA, totalD,
                           totalReusedD, reuseA, reuseD>>]_vars

C17_Witness ==
    /\ pc = "scan"
    /\ Len(log) >= 3
    /\ IsGetMiss(log[Len(log)])
    /\ log[Len(log)][3] \in PutIds(4) \ PutIds(3)
    /\ PutIds(3) \cap PutIds(4) # {}
    /\ reuseA = <<>>

(***************************************************************************)
(* C18.  The accumulators are sums over the registry.  After every line,   *)
(* totalA is 154 times the number of action entries, totalD is the sum of  *)
(* the sizes of the data entries, and totalReusedA and totalReusedD are    *)
(* the sums of the sizes of the action and data entries whose reused flag  *)
(* is set.  Hence totalReusedA <= totalA always, and totalReusedD <=       *)
(* totalD whenever all logged sizes are non-negative.                      *)
(***************************************************************************)
ActionAddrs == {cache[k] : k \in {x \in DOMAIN cache : HasSuffix(x, ASuffix)}}
DataAddrs   == {cache[k] : k \in {x \in DOMAIN cache : HasSuffix(x, DSuffix)}}

SizesNonNegative ==
    \A i \in 1..Len(log) : IsPut(log[i]) => ParseInt(log[i][5]).val >= 0

C18_TotalsAreRegistrySums ==
    /\ totalA = ActionSize * Cardinality(ActionAddrs)
    /\ totalD = SumSize(DataAddrs)
    /\ totalReusedA = SumSize({a \in ActionAddrs : heap[a].reused})
    /\ totalReusedD = SumSize({d \in DataAddrs : heap[d].reused})
    /\ totalReusedA <= totalA
    /\ SizesNonNegative => totalReusedD <= totalD

C18_Witness ==
    /\ SizesNonNegative
    /\ 0 < totalReusedD /\ totalReusedD < totalD
    /\ 0 < totalReusedA
    /\ Cardinality(ActionAddrs) + Cardinality(DataAddrs) = Len(heap)

(***************************************************************************)
(* C19.  The sample sequences have equal lengths: reuseA and reuseD both   *)
(* hold one sample per get/miss line that found its entry, and in the      *)
(* delta-tracking variant reuseDeltaA and reuseDeltaD have that length     *)
(* too.  So the reads of reuseDelta at positions computed from len(reuse)  *)
(* (the 95%, 99%, 99.9% and max lines of the second block) are in range,   *)
(* and the delta-tracking report prints all its lines.                     *)
(***************************************************************************)
\* The lines of the second block that the report printed for a cache.
DeltaItems(name) ==
    {i \in 1..Len(ext.out) :
        ext.out[i].kind = "delta" /\ ext.out[i].name = name}

XReported ==
    { <<"action", ext.reuseA, ext.reuseDeltaA>>,
      <<"data", ext.reuseD, ext.reuseDeltaD>> }

C19_SampleLengthsAgree ==
    /\ Len(reuseA) = Cardinality(Hits)
    /\ Len(reuseD) = Cardinality(Hits)
    /\ Len(ext.reuseA) = Cardinality(Hits)
    /\ Len(ext.reuseD) = Cardinality(Hits)
    /\ Len(ext.reuseDeltaA) = Cardinality(Hits)
    /\ Len(ext.reuseDeltaD) = Cardinality(Hits)
    /\ ext.pc # "panic"
    /\ ext.pc = "done" =>
          \A r \in XReported :
              /\ Cardinality(DeltaItems(r[1]))
                    = IF Len(r[2]) = 0 THEN 0 ELSE Len(XDeltaReads(0, 0))
              /\ \A i \in DeltaItems(r[1]) :
                    /\ ext.out[i].j \in 0..(Len(r[3]) - 1)
                    /\ ext.out[i].num = r[3][ext.out[i].j + 1]
              /\ Len(r[2]) > 0 =>
                    \E i \in DeltaItems(r[1]) :
                        /\ ext.out[i].label = "max"
                        /\ ext.out[i].j = Len(r[2]) - 1

C19_Witness ==
    /\ ext.pc = "done"
    /\ Len(ext.reuseDeltaD) >= 5
    /\ Len(log) > Len(ext.reuseDeltaD) + 1
    /\ \E i \in DeltaItems("data") : ext.out[i].num > 0

(***************************************************************************)
(* C20.  When the timestamps do not decrease in file order, the data entry *)
(* of every action entry was created no later than the action entry        *)
(* (e.data.created <= e.created), so for each get/miss event the data      *)
(* sample is at least the action sample, and both are non-negative.        *)
(***************************************************************************)
C20_DataSampleDominates ==
    (Accepted /\ Monotone) =>
        /\ \A a \in ActionAddrs : heap[heap[a].data].created <= heap[a].created
        /\ pc = "scan" =>
              \A i \in 1..Len(reuseA) :
                  0 <= reuseA[i] /\ reuseA[i] <= reuseD[i]

C20_Witness ==
    /\ pc = "scan" /\ Monotone
    /\ \E a \in ActionAddrs : heap[heap[a].data].created < heap[a].created
    /\ \E i \in 1..Len(reuseA) : reuseA[i] < reuseD[i]
    /\ \E i \in 1..Len(reuseA) : 0 < reuseA[i]

====
